---- MODULE Spec2Model ----
(***************************************************************************)
(* Model of the MCP tool-server registry (config/mcp_config.py) and of the *)
(* agent session wrapper (src/autonomous_agent.py).                        *)
(*                                                                         *)
(* The process environment, the filesystem and the external agent runtime  *)
(* are the program's surroundings: their contents are drawn from small     *)
(* sets, and every call into the runtime may return or raise.              *)
(***************************************************************************)
EXTENDS Integers, Sequences, FiniteSets, TLC

VARIABLES
    env,        \* os.environ restricted to the variables the program reads
    fs,         \* what the filesystem probes answer
    ret,        \* what the most recent call of a config function gave its caller
    held,       \* registries earlier get_all_mcp_servers calls returned, still held
    tasks,      \* the coroutines that use the one AutonomousAgent of the process
    calls,      \* the config functions the agent has called, with what they returned
    constructed,\* whether AutonomousAgent.__init__ has returned
    options,    \* self.options, the ClaudeAgentOptions of the agent
    client,     \* self.client: 0 for None, otherwise the index of a ClaudeSDKClient
    clients,    \* the ClaudeSDKClient objects created so far, in creation order
    pc,         \* pc[t]: where task t is suspended inside a method of the agent
    loc,        \* loc[t]: the client the suspended call of task t was made on
    scope,      \* scope[t]: the `async with` statement of task t
    stream,     \* stream[t]: the messages receive_response() gave task t's query
    response_text, \* response_text[t]: the local of that name in query()
    verbose,    \* verbose[t]: the verbose argument of task t's query
    printed,    \* printed[t]: what task t's query has printed so far
    fault,      \* fault[t]: the error the runtime raised into task t's call, if any
    last        \* last[t]: the agent method task t completed last, and how

----------------------------------------------------------------------------
(* Python values *)

\* os.getenv gives None for an unset variable and its string otherwise.
None == <<>>
Str(s) == <<s>>

\* Python truthiness of an Optional[str]: None and "" are falsy.
Truthy(v) == v # None /\ v # Str("")

EmptyDict == [k \in {} |-> None]

\* An assignment where an update was meant: the earlier entries are lost.
Update_Assign(a, b) == b

\* dict.update: the keys of b are inserted into a, replacing equal keys.
Update(a, b) ==
    [k \in (DOMAIN a) \cup (DOMAIN b) |-> IF k \in DOMAIN b THEN b[k] ELSE a[k]]

\* A call's outcome as its caller sees it: the exception raised ("none" when
\* it returned), the exception's message as the fragments the code joins,
\* the mapping returned, the truth value returned, and the lines printed.
Returned(v, lines) ==
    [exc |-> "none", msg |-> <<>>, value |-> v, flag |-> TRUE, printed |-> lines]
ReturnedBool(b, lines) ==
    [exc |-> "none", msg |-> <<>>, value |-> EmptyDict, flag |-> b, printed |-> lines]
Raised(e, m) ==
    [exc |-> e, msg |-> m, value |-> EmptyDict, flag |-> FALSE, printed |-> <<>>]

----------------------------------------------------------------------------
(* The surroundings *)

EnvNames ==
    {"DD_API_KEY", "DD_APP_KEY", "DD_SITE", "GITHUB_PERSONAL_ACCESS_TOKEN",
     "ANTHROPIC_API_KEY"}

EnvValues(name) ==
    CASE name = "DD_API_KEY" ->
            {None, Str(""), Str("your_datadog_api_key_here"), Str("abc123")}
      [] name = "DD_APP_KEY" ->
            {None, Str(""), Str("your_datadog_application_key_here"), Str("def456")}
      [] name = "DD_SITE" ->
            {None, Str(""), Str("datadoghq.eu")}
      [] name = "GITHUB_PERSONAL_ACCESS_TOKEN" ->
            {None, Str(""), Str("your_github_token_here"), Str("ghp_token")}
      [] name = "ANTHROPIC_API_KEY" ->
            {None, Str(""), Str("sk-ant-key")}

Environments == {e \in [EnvNames -> UNION {EnvValues(n) : n \in EnvNames}] :
                    \A n \in EnvNames : e[n] \in EnvValues(n)}

\* os.path.expanduser("~/go/bin/github-mcp-server") for the running user.
github_mcp_path == "/home/user/go/bin/github-mcp-server"

\* fs.exists: the probed paths that exist; fs.which: what shutil.which gives
\* for "datadog-mcp-server" (None when it is not on PATH).
Filesystems ==
    [exists : SUBSET {github_mcp_path},
     which : {None, Str("/usr/local/bin/datadog-mcp-server")}]

getenv(name) == env[name]

\* A wrong os.getenv default: falls back on the default for an empty value too.
getenv_default_or(name, default) ==
    IF Truthy(env[name]) THEN env[name] ELSE Str(default)

getenv_default(name, default) == IF env[name] = None THEN Str(default) ELSE env[name]

----------------------------------------------------------------------------
(* config/mcp_config.py *)

\* A credential check that forgets the placeholder of the .env template.
not_configured_NoPlaceholder(value, placeholder) == ~Truthy(value)

\* `not value or value == "<placeholder>"`
not_configured(value, placeholder) == ~Truthy(value) \/ value = Str(placeholder)

datadog_descriptor(api_key, app_key, site) ==
    [k \in {"datadog"} |->
        [type |-> "stdio",
         command |-> "datadog-mcp-server",
         env |-> [DD_API_KEY |-> api_key[1],
                  DD_APP_KEY |-> app_key[1],
                  DD_SITE |-> site[1]]]]

\* A github descriptor whose transport type is misspelt.
github_descriptor_BadType(path, github_token) ==
    [k \in {"github"} |->
        [type |-> "sse",
         command |-> path,
         args |-> <<"stdio">>,
         env |-> [GITHUB_PERSONAL_ACCESS_TOKEN |-> github_token[1]]]]

github_descriptor(path, github_token) ==
    [k \in {"github"} |->
        [type |-> "stdio",
         command |-> path,
         args |-> <<"stdio">>,
         env |-> [GITHUB_PERSONAL_ACCESS_TOKEN |-> github_token[1]]]]

\* The two credential checks in the opposite order.
get_datadog_mcp_config_AppKeyFirst ==
    LET api_key == getenv("DD_API_KEY")
        app_key == getenv("DD_APP_KEY")
        site    == getenv_default("DD_SITE", "datadoghq.com")
    IN  IF not_configured(app_key, "your_datadog_application_key_here")
        THEN Raised("ValueError",
                    <<"DD_APP_KEY", " environment variable not set. ",
                      "Please set it in .env file or export it.">>)
        ELSE IF not_configured(api_key, "your_datadog_api_key_here")
        THEN Raised("ValueError",
                    <<"DD_API_KEY", " environment variable not set. ",
                      "Please set it in .env file or export it.">>)
        ELSE Returned(datadog_descriptor(api_key, app_key, site), <<>>)

get_datadog_mcp_config ==
    LET api_key == getenv("DD_API_KEY")
        app_key == getenv("DD_APP_KEY")
        site    == getenv_default("DD_SITE", "datadoghq.com")
    IN  IF not_configured(api_key, "your_datadog_api_key_here")
        THEN Raised("ValueError",
                    <<"DD_API_KEY", " environment variable not set. ",
                      "Please set it in .env file or export it.">>)
        ELSE IF not_configured(app_key, "your_datadog_application_key_here")
        THEN Raised("ValueError",
                    <<"DD_APP_KEY", " environment variable not set. ",
                      "Please set it in .env file or export it.">>)
        ELSE Returned(datadog_descriptor(api_key, app_key, site), <<>>)

\* A github builder that probes for the executable before it tests the token.
get_github_mcp_config_ProbeFirst ==
    LET github_token == getenv("GITHUB_PERSONAL_ACCESS_TOKEN")
    IN  IF github_mcp_path \notin fs.exists
        THEN Raised("ValueError",
                    <<"GitHub MCP Server not found at ", github_mcp_path, ". ",
                      "Install it with: go install github.com/github/github-mcp-server/cmd/github-mcp-server@latest">>)
        ELSE IF not_configured(github_token, "your_github_token_here")
        THEN Raised("ValueError",
                    <<"GITHUB_PERSONAL_ACCESS_TOKEN", " not set. ",
                      "Create a token at https://github.com/settings/tokens ",
                      "with scopes: repo, read:org, read:user, workflow">>)
        ELSE Returned(github_descriptor(github_mcp_path, github_token), <<>>)

get_github_mcp_config ==
    LET github_token == getenv("GITHUB_PERSONAL_ACCESS_TOKEN")
    IN  IF not_configured(github_token, "your_github_token_here")
        THEN Raised("ValueError",
                    <<"GITHUB_PERSONAL_ACCESS_TOKEN", " not set. ",
                      "Create a token at https://github.com/settings/tokens ",
                      "with scopes: repo, read:org, read:user, workflow">>)
        ELSE IF github_mcp_path \notin fs.exists
        THEN Raised("ValueError",
                    <<"GitHub MCP Server not found at ", github_mcp_path, ". ",
                      "Install it with: go install github.com/github/github-mcp-server/cmd/github-mcp-server@latest">>)
        ELSE Returned(github_descriptor(github_mcp_path, github_token), <<>>)

\* The warning line one except block prints.
Warning(label, msg) ==
    <<"Warning: Could not configure ", label, " MCP server: ">> \o msg

\* A try block with no except clause: the builder's error leaves the function.
TryUpdate_NoExcept(acc, built, label) ==
    IF acc.exc # "none" THEN acc
    ELSE IF built.exc = "none"
         THEN [acc EXCEPT !.value = Update(acc.value, built.value)]
    ELSE Raised(built.exc, built.msg)

\* An except clause that passes silently.
TryUpdate_Silent(acc, built, label) ==
    IF acc.exc # "none" THEN acc
    ELSE IF built.exc = "none"
         THEN [acc EXCEPT !.value = Update(acc.value, built.value)]
    ELSE IF built.exc = "ValueError"
         THEN acc
    ELSE Raised(built.exc, built.msg)

\* One try/except block of get_all_mcp_servers: a ValueError of the builder
\* becomes a printed warning, any other exception leaves the function.
TryUpdate(acc, built, label) ==
    IF acc.exc # "none" THEN acc
    ELSE IF built.exc = "none"
         THEN [acc EXCEPT !.value = Update(acc.value, built.value)]
    ELSE IF built.exc = "ValueError"
         THEN [acc EXCEPT !.printed = Append(acc.printed, Warning(label, built.msg))]
    ELSE Raised(built.exc, built.msg)

get_all_mcp_servers ==
    LET servers == Returned(EmptyDict, <<>>)
        dd == TryUpdate(servers, get_datadog_mcp_config, "Datadog")
        gh == TryUpdate(dd, get_github_mcp_config, "GitHub")
    IN  gh

\* A validation that also wants the datadog API key.
validate_mcp_server_NeedsKey ==
    LET mcp_server_path == fs.which
    IN  IF ~Truthy(mcp_server_path) \/ ~Truthy(getenv("DD_API_KEY"))
        THEN ReturnedBool(FALSE,
                <<<<"Error: datadog-mcp-server not found in PATH">>,
                  <<"Install it with: npm install -g datadog-mcp-server">>>>)
        ELSE ReturnedBool(TRUE,
                <<<<"Found datadog-mcp-server at: ", mcp_server_path[1]>>>>)

validate_mcp_server ==
    LET mcp_server_path == fs.which
    IN  IF ~Truthy(mcp_server_path)
        THEN ReturnedBool(FALSE,
                <<<<"Error: datadog-mcp-server not found in PATH">>,
                  <<"Install it with: npm install -g datadog-mcp-server">>>>)
        ELSE ReturnedBool(TRUE,
                <<<<"Found datadog-mcp-server at: ", mcp_server_path[1]>>>>)

----------------------------------------------------------------------------
(* src/autonomous_agent.py: class AutonomousAgent *)

\* Bounds of the session model.
MaxClients == 2      \* ClaudeSDKClient objects created in one run
MaxReleases == 2     \* __aexit__ calls on one ClaudeSDKClient
MaxHeld == 2         \* registries of earlier calls a caller still holds
MaxMessages == 2     \* messages of one response stream

configVars == <<env, fs, ret, held>>

\* A call of the config function fn by the agent, and the mapping it
\* returned (the empty one for a function that returns none).
Called(fn, out) == [fn |-> fn, value |-> out.value]

\* What a method of the agent did: the config calls it made, in order, and
\* how it ended.
Made(called, out) == [called |-> called] @@ out

\* A constructor that looks for the datadog executable before the API key.
AutonomousAgent_init_ValidateFirst ==
    LET api_key == getenv("ANTHROPIC_API_KEY")
        valid == validate_mcp_server
        mcp_servers == get_all_mcp_servers
    IN  IF ~valid.flag
        THEN Made(<<Called("validate_mcp_server", valid)>>,
                  Raised("RuntimeError",
                         <<"Datadog MCP server not found. ",
                           "Install with: npm install -g datadog-mcp-server">>))
        ELSE IF ~Truthy(api_key)
        THEN Made(<<Called("validate_mcp_server", valid)>>,
                  Raised("ValueError",
                         <<"ANTHROPIC_API_KEY", " environment variable not set. ",
                           "Get your API key from: https://console.anthropic.com/">>))
        ELSE IF mcp_servers.exc # "none"
        THEN Made(<<Called("validate_mcp_server", valid),
                    Called("get_all_mcp_servers", mcp_servers)>>,
                  Raised(mcp_servers.exc, mcp_servers.msg))
        ELSE Made(<<Called("validate_mcp_server", valid),
                    Called("get_all_mcp_servers", mcp_servers)>>,
                  Returned(mcp_servers.value, valid.printed \o mcp_servers.printed))

\* A constructor that refuses an empty registry.
AutonomousAgent_init_RequireServers ==
    LET api_key == getenv("ANTHROPIC_API_KEY")
        valid == validate_mcp_server
        mcp_servers == get_all_mcp_servers
    IN  IF ~Truthy(api_key)
        THEN Made(<<>>,
                  Raised("ValueError",
                         <<"ANTHROPIC_API_KEY", " environment variable not set. ",
                           "Get your API key from: https://console.anthropic.com/">>))
        ELSE IF ~valid.flag
        THEN Made(<<Called("validate_mcp_server", valid)>>,
                  Raised("RuntimeError",
                         <<"Datadog MCP server not found. ",
                           "Install with: npm install -g datadog-mcp-server">>))
        ELSE IF mcp_servers.exc # "none"
        THEN Made(<<Called("validate_mcp_server", valid),
                    Called("get_all_mcp_servers", mcp_servers)>>,
                  Raised(mcp_servers.exc, mcp_servers.msg))
        ELSE IF mcp_servers.value = EmptyDict
        THEN Made(<<Called("validate_mcp_server", valid),
                    Called("get_all_mcp_servers", mcp_servers)>>,
                  Raised("RuntimeError", <<"No MCP servers configured">>))
        ELSE Made(<<Called("validate_mcp_server", valid),
                    Called("get_all_mcp_servers", mcp_servers)>>,
                  Returned(mcp_servers.value, valid.printed \o mcp_servers.printed))

\* AutonomousAgent.__init__: the exception it raises, or the mcp_servers it
\* stores in self.options.
AutonomousAgent_init ==
    LET api_key == getenv("ANTHROPIC_API_KEY")
        valid == validate_mcp_server
        mcp_servers == get_all_mcp_servers
    IN  IF ~Truthy(api_key)
        THEN Made(<<>>,
                  Raised("ValueError",
                         <<"ANTHROPIC_API_KEY", " environment variable not set. ",
                           "Get your API key from: https://console.anthropic.com/">>))
        ELSE IF ~valid.flag
        THEN Made(<<Called("validate_mcp_server", valid)>>,
                  Raised("RuntimeError",
                         <<"Datadog MCP server not found. ",
                           "Install with: npm install -g datadog-mcp-server">>))
        ELSE IF mcp_servers.exc # "none"
        THEN Made(<<Called("validate_mcp_server", valid),
                    Called("get_all_mcp_servers", mcp_servers)>>,
                  Raised(mcp_servers.exc, mcp_servers.msg))
        ELSE Made(<<Called("validate_mcp_server", valid),
                    Called("get_all_mcp_servers", mcp_servers)>>,
                  Returned(mcp_servers.value, valid.printed \o mcp_servers.printed))

\* ClaudeAgentOptions(model=..., mcp_servers=..., permission_mode=...)
ClaudeAgentOptions(model, mcp_servers, permission_mode) ==
    [model |-> model, mcp_servers |-> mcp_servers, permission_mode |-> permission_mode]

NoOptions == ClaudeAgentOptions("", EmptyDict, "")

\* ClaudeSDKClient(options=self.options): not entered, never released, no
\* request outstanding.
ClaudeSDKClient(opts) ==
    [options |-> opts, state |-> "created", releases |-> 0, inflight |-> 0]

\* The `async with` of a task: outside any, entering, in its body, exiting,
\* or left; the client its entry created; the exception its body ended with.
NoScope == [phase |-> "out", client |-> 0, bodyExc |-> "none"]

Outside(t) == scope[t].phase \in {"out", "exited"}

\* The body of an `async with` runs on only while nothing was raised in it.
MayCall(t) ==
    /\ pc[t] = "idle"
    /\ Outside(t) \/ (scope[t].phase = "body" /\ scope[t].bodyExc = "none")

\* Task t's call of method op has ended, with exception e ("none" when it
\* returned; a query that returned gave its response_text).
Done(t, op, e) == last' = [last EXCEPT ![t] = [op |-> op, exc |-> e]]

locals == <<stream, response_text, verbose, printed, fault>>

\* The errors the agent runtime raises from a call made on a client; the
\* agent has no except clause, so one kind stands for all of them.
RuntimeErrors == {"CLIConnectionError"}

\* A new call of task t, with argument verbose = v and with `lines` printed
\* before it first awaits: the locals of the previous call are gone.
Enter(t, v, lines) ==
    /\ stream' = [stream EXCEPT ![t] = <<>>]
    /\ response_text' = [response_text EXCEPT ![t] = <<>>]
    /\ verbose' = [verbose EXCEPT ![t] = v]
    /\ printed' = [printed EXCEPT ![t] = lines]
    /\ fault' = [fault EXCEPT ![t] = "none"]

\* A new call of a method that has no verbose argument.
Forget(t) == Enter(t, FALSE, <<>>)

\* The runtime raises e into the suspended call of task t.
Fault(t, e) ==
    /\ fault' = [fault EXCEPT ![t] = e]
    /\ UNCHANGED <<stream, response_text, verbose, printed>>

\* An exception raised inside the body of an `async with` ends the body.
RaiseIn(t, e) ==
    IF scope[t].phase = "body"
    THEN scope' = [scope EXCEPT ![t].bodyExc = e]
    ELSE UNCHANGED scope

\* agent = AutonomousAgent()
Construct(t) ==
    /\ pc[t] = "idle" /\ Outside(t)
    /\ ~constructed
    /\ LET r == AutonomousAgent_init
       IN  /\ constructed' = (r.exc = "none")
           /\ options' = IF r.exc = "none"
                         THEN ClaudeAgentOptions("claude-sonnet-4-20250514", r.value,
                                                 "bypassPermissions")
                         ELSE options
           /\ client' = 0
           /\ calls' = r.called
           /\ Done(t, "__init__", r.exc)
    /\ UNCHANGED <<tasks, clients, pc, loc, scope>>
    /\ Forget(t)
    /\ UNCHANGED configVars

\* A start() that assembles the registry again for the client it creates.
BeginStart_Reassemble(t) ==
    /\ constructed
    /\ Len(clients) < MaxClients
    /\ clients' = Append(clients,
                         ClaudeSDKClient([options EXCEPT
                                             !.mcp_servers = get_all_mcp_servers.value]))
    /\ client' = Len(clients) + 1
    /\ loc' = [loc EXCEPT ![t] = Len(clients) + 1]
    /\ pc' = [pc EXCEPT ![t] = "start_entering"]

\* start(), up to the await of the new client's __aenter__.
BeginStart(t) ==
    /\ constructed
    /\ Len(clients) < MaxClients
    /\ clients' = Append(clients, ClaudeSDKClient(options))
    /\ client' = Len(clients) + 1
    /\ loc' = [loc EXCEPT ![t] = Len(clients) + 1]
    /\ pc' = [pc EXCEPT ![t] = "start_entering"]

\* await agent.start()
Start(t) ==
    /\ pc[t] = "idle" /\ Outside(t)
    /\ BeginStart(t)
    /\ UNCHANGED <<tasks, calls, constructed, options, scope, last>>
    /\ Forget(t)
    /\ UNCHANGED configVars

\* async with agent: __aenter__ awaits start()
Aenter(t) ==
    /\ pc[t] = "idle" /\ Outside(t)
    /\ BeginStart(t)
    /\ scope' = [scope EXCEPT ![t] =
                    [phase |-> "entering", client |-> Len(clients) + 1,
                     bodyExc |-> "none"]]
    /\ UNCHANGED <<tasks, calls, constructed, options, last>>
    /\ Forget(t)
    /\ UNCHANGED configVars

\* The new client's __aenter__ returns: start() prints and returns, and a
\* scoped entry goes on into the body.
EnterReturns(t) ==
    /\ pc[t] = "start_entering"
    /\ clients' = [clients EXCEPT ![loc[t]].state = "entered"]
    /\ pc' = [pc EXCEPT ![t] = "idle"]
    /\ IF scope[t].phase = "entering"
       THEN /\ scope' = [scope EXCEPT ![t].phase = "body"]
            /\ Done(t, "__aenter__", "none")
       ELSE /\ UNCHANGED scope
            /\ Done(t, "start", "none")
    /\ UNCHANGED <<tasks, calls, constructed, options, client, loc>>
    /\ UNCHANGED locals
    /\ UNCHANGED configVars

\* The new client's __aenter__ raises: the error leaves start(), and a scoped
\* entry that fails runs neither the body nor __aexit__.
EnterRaises(t) ==
    /\ pc[t] = "start_entering"
    /\ \E e \in RuntimeErrors :
          /\ Fault(t, e)
          /\ clients' = [clients EXCEPT ![loc[t]].state = "enter_failed"]
          /\ pc' = [pc EXCEPT ![t] = "idle"]
          /\ IF scope[t].phase = "entering"
             THEN /\ scope' = [scope EXCEPT ![t].phase = "out"]
                  /\ Done(t, "__aenter__", e)
             ELSE /\ UNCHANGED scope
                  /\ Done(t, "start", e)
    /\ UNCHANGED <<tasks, calls, constructed, options, client, loc>>
    /\ UNCHANGED configVars

\* stop(), up to the await of the client's __aexit__: with no client it only
\* prints and returns (op and e say what the caller then sees).
BeginStop(t, op, e) ==
    IF client = 0
    THEN /\ Done(t, op, e)
         /\ UNCHANGED <<client, clients, pc, loc>>
    ELSE /\ clients[client].releases < MaxReleases
         /\ clients' = [clients EXCEPT ![client].releases = @ + 1]
         /\ loc' = [loc EXCEPT ![t] = client]
         /\ pc' = [pc EXCEPT ![t] = "stop_releasing"]
         /\ UNCHANGED <<client, last>>

\* await agent.stop()
Stop(t) ==
    /\ pc[t] = "idle" /\ Outside(t)
    /\ constructed
    /\ BeginStop(t, "stop", "none")
    /\ UNCHANGED <<tasks, calls, constructed, options, scope>>
    /\ Forget(t)
    /\ UNCHANGED configVars

\* The body of the `async with` ends, normally or with the exception raised
\* in it: __aexit__ awaits stop() and returns False, so that exception goes on.
Aexit(t) ==
    /\ pc[t] = "idle"
    /\ scope[t].phase = "body"
    /\ BeginStop(t, "__aexit__", scope[t].bodyExc)
    /\ scope' = [scope EXCEPT ![t].phase = IF client = 0 THEN "exited" ELSE "exiting"]
    /\ UNCHANGED <<tasks, calls, constructed, options>>
    /\ Forget(t)
    /\ UNCHANGED configVars

\* The client's __aexit__ returns: stop() sets self.client = None.
ReleaseReturns(t) ==
    /\ pc[t] = "stop_releasing"
    /\ clients' = [clients EXCEPT ![loc[t]].state = "released"]
    /\ client' = 0
    /\ pc' = [pc EXCEPT ![t] = "idle"]
    /\ IF scope[t].phase = "exiting"
       THEN /\ scope' = [scope EXCEPT ![t].phase = "exited"]
            /\ Done(t, "__aexit__", scope[t].bodyExc)
       ELSE /\ UNCHANGED scope
            /\ Done(t, "stop", "none")
    /\ UNCHANGED <<tasks, calls, constructed, options, loc>>
    /\ UNCHANGED locals
    /\ UNCHANGED configVars

\* The client's __aexit__ raises: the error leaves stop() before the handle
\* is reset, and it replaces the exception of the body.
ReleaseRaises(t) ==
    /\ pc[t] = "stop_releasing"
    /\ \E e \in RuntimeErrors :
          /\ Fault(t, e)
          /\ clients' = [clients EXCEPT ![loc[t]].state = "release_failed"]
          /\ pc' = [pc EXCEPT ![t] = "idle"]
          /\ IF scope[t].phase = "exiting"
             THEN /\ scope' = [scope EXCEPT ![t].phase = "exited"]
                  /\ Done(t, "__aexit__", e)
             ELSE /\ UNCHANGED scope
                  /\ Done(t, "stop", e)
    /\ UNCHANGED <<tasks, calls, constructed, options, client, loc>>
    /\ UNCHANGED configVars

\* The body of the `async with` raises by itself.
BodyRaises(t) ==
    /\ MayCall(t)
    /\ scope[t].phase = "body"
    /\ scope' = [scope EXCEPT ![t].bodyExc = "BodyError"]
    /\ UNCHANGED <<tasks, calls, constructed, options, client, clients, pc, loc, last>>
    /\ Forget(t)
    /\ UNCHANGED configVars

\* A query() without the `if not self.client` test: None has no query method.
Query_NoCheck(t) ==
    /\ MayCall(t)
    /\ constructed
    /\ IF client = 0
       THEN /\ Done(t, "query", "AttributeError")
            /\ RaiseIn(t, "AttributeError")
            /\ UNCHANGED <<clients, pc, loc>>
       ELSE /\ clients' = [clients EXCEPT ![client].inflight = @ + 1]
            /\ loc' = [loc EXCEPT ![t] = client]
            /\ pc' = [pc EXCEPT ![t] = "query_sending"]
            /\ UNCHANGED <<scope, last>>
    /\ UNCHANGED <<tasks, calls, constructed, options, client>>
    /\ \E v \in BOOLEAN :
          Enter(t, v, IF v /\ client # 0 THEN <<"Query: ">> ELSE <<>>)
    /\ UNCHANGED configVars

\* await agent.query(prompt, verbose=v), up to the await of the client's
\* query; a verbose query first prints the prompt.
Query(t) ==
    /\ MayCall(t)
    /\ constructed
    /\ IF client = 0
       THEN /\ Done(t, "query", "RuntimeError")
            /\ RaiseIn(t, "RuntimeError")
            /\ UNCHANGED <<clients, pc, loc>>
       ELSE /\ clients' = [clients EXCEPT ![client].inflight = @ + 1]
            /\ loc' = [loc EXCEPT ![t] = client]
            /\ pc' = [pc EXCEPT ![t] = "query_sending"]
            /\ UNCHANGED <<scope, last>>
    /\ UNCHANGED <<tasks, calls, constructed, options, client>>
    /\ \E v \in BOOLEAN :
          Enter(t, v, IF v /\ client # 0 THEN <<"Query: ">> ELSE <<>>)
    /\ UNCHANGED configVars

\* A call the runtime made on client c has ended.
Settle(c) == clients' = [clients EXCEPT ![c].inflight = @ - 1]

\* The messages a response stream is made of: one with no content attribute,
\* one whose content has a text block, one whose content has a block with no
\* text attribute between two text blocks.
Messages ==
    {[subtype |-> "init"],
     [content |-> <<[text |-> "Hello "]>>],
     [content |-> <<[text |-> "wor"], [name |-> "list_monitors"], [text |-> "ld"]>>]}

hasattr(obj, attr) == attr \in DOMAIN obj

\* A collector that takes only the first block of a message.
CollectText_FirstBlock(text, message) ==
    IF hasattr(message, "content") /\ Len(message.content) > 0
                                   /\ hasattr(message.content[1], "text")
    THEN Append(text, message.content[1].text)
    ELSE text

RECURSIVE CollectBlocks(_, _)
\* for block in content: if hasattr(block, 'text'): response_text += block.text
CollectBlocks(text, content) ==
    IF content = <<>> THEN text
    ELSE CollectBlocks(IF hasattr(Head(content), "text")
                       THEN Append(text, Head(content).text)
                       ELSE text,
                       Tail(content))

\* The body of the `async for`: the text so far, with the text of one more
\* message (a string is held as the fragments appended to it, in order).
CollectText(text, message) ==
    IF hasattr(message, "content") THEN CollectBlocks(text, message.content) ELSE text

\* The client's query returns (only an entered client accepts a prompt):
\* response_text = "" and the response stream of self.client is opened.
SendReturns(t) ==
    /\ pc[t] = "query_sending"
    /\ clients[loc[t]].state = "entered"
    /\ IF client = 0
       THEN /\ Settle(loc[t])
            /\ pc' = [pc EXCEPT ![t] = "idle"]
            /\ Done(t, "query", "AttributeError")
            /\ RaiseIn(t, "AttributeError")
            /\ UNCHANGED <<loc, locals>>
       ELSE /\ pc' = [pc EXCEPT ![t] = "query_receiving"]
            /\ stream' = [stream EXCEPT ![t] = <<>>]
            /\ response_text' = [response_text EXCEPT ![t] = <<>>]
            /\ UNCHANGED <<clients, loc, scope, last, verbose, printed, fault>>
    /\ UNCHANGED <<tasks, calls, constructed, options, client>>
    /\ UNCHANGED configVars

\* The client's query raises: the error leaves query().
SendRaises(t) ==
    /\ pc[t] = "query_sending"
    /\ Settle(loc[t])
    /\ pc' = [pc EXCEPT ![t] = "idle"]
    /\ \E e \in RuntimeErrors :
          /\ Done(t, "query", e)
          /\ RaiseIn(t, e)
          /\ Fault(t, e)
    /\ UNCHANGED <<tasks, calls, constructed, options, client, loc>>
    /\ UNCHANGED configVars

\* receive_response() yields one more message.
MessageArrives(t) ==
    /\ pc[t] = "query_receiving"
    /\ Len(stream[t]) < MaxMessages
    /\ \E message \in Messages :
          /\ stream' = [stream EXCEPT ![t] = Append(@, message)]
          /\ response_text' = [response_text EXCEPT ![t] = CollectText(@, message)]
    /\ printed' = [printed EXCEPT ![t] =
                      IF verbose[t] THEN Append(@, "message") ELSE @]
    /\ UNCHANGED <<verbose, fault>>
    /\ UNCHANGED <<tasks, calls, constructed, options, client, clients, pc, loc, scope, last>>
    /\ UNCHANGED configVars

\* receive_response() is exhausted: query() returns response_text.
StreamEnds(t) ==
    /\ pc[t] = "query_receiving"
    /\ Settle(loc[t])
    /\ pc' = [pc EXCEPT ![t] = "idle"]
    /\ Done(t, "query", "none")
    /\ printed' = [printed EXCEPT ![t] =
                      IF verbose[t] THEN Append(@, "Final Response:") ELSE @]
    /\ UNCHANGED <<tasks, calls, constructed, options, client, loc, scope>>
    /\ UNCHANGED <<stream, response_text, verbose, fault>>
    /\ UNCHANGED configVars

\* A query() that catches the error of receive_response() and returns the
\* text collected so far.
ReceiveRaises_ReturnPartial(t) ==
    /\ pc[t] = "query_receiving"
    /\ Settle(loc[t])
    /\ pc' = [pc EXCEPT ![t] = "idle"]
    /\ \E e \in RuntimeErrors :
          /\ Done(t, "query", "none")
          /\ Fault(t, e)
    /\ UNCHANGED <<tasks, calls, constructed, options, client, loc, scope>>
    /\ UNCHANGED configVars

\* receive_response() raises: the error leaves query().
ReceiveRaises(t) ==
    /\ pc[t] = "query_receiving"
    /\ Settle(loc[t])
    /\ pc' = [pc EXCEPT ![t] = "idle"]
    /\ \E e \in RuntimeErrors :
          /\ Done(t, "query", e)
          /\ RaiseIn(t, e)
          /\ Fault(t, e)
    /\ UNCHANGED <<tasks, calls, constructed, options, client, loc>>
    /\ UNCHANGED configVars

\* The session before anything was constructed, used by the task set T.
SessionUnused(T) ==
    /\ tasks = T
    /\ calls = <<>>
    /\ constructed = FALSE
    /\ options = NoOptions
    /\ client = 0
    /\ clients = <<>>
    /\ pc = [t \in T |-> "idle"]
    /\ loc = [t \in T |-> 0]
    /\ scope = [t \in T |-> NoScope]
    /\ stream = [t \in T |-> <<>>]
    /\ response_text = [t \in T |-> <<>>]
    /\ verbose = [t \in T |-> FALSE]
    /\ printed = [t \in T |-> <<>>]
    /\ fault = [t \in T |-> "none"]
    /\ last = [t \in T |-> [op |-> "none", exc |-> "none"]]

----------------------------------------------------------------------------
(* Calls of the config functions by a client of the module *)

sessionVars ==
    <<tasks, calls, constructed, options, client, clients, pc, loc, scope,
      stream, response_text, verbose, printed, fault, last>>

NoCall == [op |-> "none"] @@ Returned(EmptyDict, <<>>)

Observe(name, outcome) == [op |-> name] @@ outcome

\* The caller keeps the mapping it was returned, with the configuration it
\* was assembled under (the first MaxHeld of them are followed).
Hold(kept, servers) ==
    IF Len(kept) < MaxHeld
    THEN Append(kept, [env |-> env, fs |-> fs, value |-> servers])
    ELSE kept

Call_get_datadog_mcp_config ==
    /\ ret' = Observe("get_datadog_mcp_config", get_datadog_mcp_config)
    /\ UNCHANGED <<env, fs, held>>
    /\ UNCHANGED sessionVars

Call_get_github_mcp_config ==
    /\ ret' = Observe("get_github_mcp_config", get_github_mcp_config)
    /\ UNCHANGED <<env, fs, held>>
    /\ UNCHANGED sessionVars

\* get_all_mcp_servers with a module-level cache: assembled once, the same
\* mapping returned ever after.
Call_get_all_mcp_servers_Cached ==
    /\ ret' = IF ret.op = "get_all_mcp_servers"
              THEN ret
              ELSE Observe("get_all_mcp_servers", get_all_mcp_servers)
    /\ held' = Hold(held, ret'.value)
    /\ UNCHANGED <<env, fs>>
    /\ UNCHANGED sessionVars

Call_get_all_mcp_servers ==
    /\ ret' = Observe("get_all_mcp_servers", get_all_mcp_servers)
    /\ held' = Hold(held, ret'.value)
    /\ UNCHANGED <<env, fs>>
    /\ UNCHANGED sessionVars

Call_validate_mcp_server ==
    /\ ret' = Observe("validate_mcp_server", validate_mcp_server)
    /\ UNCHANGED <<env, fs, held>>
    /\ UNCHANGED sessionVars

vars ==
    <<env, fs, ret, held, tasks, calls, constructed, options, client, clients, pc, loc,
      scope, stream, response_text, verbose, printed, fault, last>>

\* os.environ[name] = value (or del os.environ[name]) by the process around
\* the agent, within the configurations E.
Setenv(E) ==
    /\ \E name \in EnvNames :
          \E value \in EnvValues(name) :
              /\ env' = [env EXCEPT ![name] = value]
              /\ env' # env
              /\ env' \in E
    /\ UNCHANGED <<fs, ret, held>>
    /\ UNCHANGED sessionVars

\* The github server executable is installed at, or removed from, its path,
\* or the datadog one on the search path.
Setfs ==
    /\ fs' \in Filesystems
    /\ fs' # fs
    /\ UNCHANGED <<env, ret, held>>
    /\ UNCHANGED sessionVars

InitConfig ==
    /\ env \in Environments
    /\ fs \in Filesystems
    /\ ret = NoCall
    /\ held = <<>>
    /\ SessionUnused({})

NextConfig ==
    \/ Call_get_datadog_mcp_config
    \/ Call_get_github_mcp_config
    \/ Call_get_all_mcp_servers
    \/ Call_validate_mcp_server

SpecConfig == InitConfig /\ [][NextConfig]_vars

\* The datadog key is set and unset; the github token stays valid, github's
\* configuration changing with its executable.
StatelessEnvironments ==
    {e \in Environments :
        /\ e["DD_API_KEY"] \in {None, Str("abc123")}
        /\ e["DD_APP_KEY"] = Str("def456")
        /\ e["DD_SITE"] = None
        /\ e["GITHUB_PERSONAL_ACCESS_TOKEN"] = Str("ghp_token")
        /\ e["ANTHROPIC_API_KEY"] = None}

InitStateless ==
    /\ env \in StatelessEnvironments
    /\ fs \in Filesystems
    /\ ret = NoCall
    /\ held = <<>>
    /\ SessionUnused({})

\* The config functions called again and again in a process whose
\* configuration and filesystem change between the calls.
NextStateless ==
    \/ NextConfig
    \/ Setenv(StatelessEnvironments)
    \/ Setfs

SpecStateless == InitStateless /\ [][NextStateless]_vars

\* The configurations a session is started under: every way each provider
\* can be configured or not, with one value for each way.
SessionEnvironments ==
    {e \in Environments :
        /\ e["DD_API_KEY"] \in {None, Str("abc123")}
        /\ e["DD_APP_KEY"] = Str("def456")
        /\ e["DD_SITE"] = None
        /\ e["GITHUB_PERSONAL_ACCESS_TOKEN"] \in {Str("your_github_token_here"), Str("ghp_token")}}

\* One task uses the agent, as main() does.
Init ==
    /\ env \in SessionEnvironments
    /\ fs \in Filesystems
    /\ ret = NoCall
    /\ held = <<>>
    /\ SessionUnused({1})

Next ==
    \/ \E t \in tasks : Construct(t)
    \/ \E t \in tasks : Start(t)
    \/ \E t \in tasks : Aenter(t)
    \/ \E t \in tasks : EnterReturns(t)
    \/ \E t \in tasks : EnterRaises(t)
    \/ \E t \in tasks : Stop(t)
    \/ \E t \in tasks : Aexit(t)
    \/ \E t \in tasks : ReleaseReturns(t)
    \/ \E t \in tasks : ReleaseRaises(t)
    \/ \E t \in tasks : BodyRaises(t)
    \/ \E t \in tasks : Query(t)
    \/ \E t \in tasks : SendReturns(t)
    \/ \E t \in tasks : SendRaises(t)
    \/ \E t \in tasks : MessageArrives(t)
    \/ \E t \in tasks : StreamEnds(t)
    \/ \E t \in tasks : ReceiveRaises(t)

Spec == Init /\ [][Next]_vars

\* The configurations the datadog key is set and unset between, in a process
\* that can construct the agent and has github configured.
ReconfigEnvironments ==
    {e \in SessionEnvironments :
        /\ e["ANTHROPIC_API_KEY"] = Str("sk-ant-key")
        /\ e["GITHUB_PERSONAL_ACCESS_TOKEN"] = Str("ghp_token")}

\* Both executables are installed and both providers' credentials are set.
InitReconfig ==
    /\ env \in {e \in ReconfigEnvironments : e["DD_API_KEY"] = Str("abc123")}
    /\ fs \in {f \in Filesystems : f.which # None /\ f.exists # {}}
    /\ ret = NoCall
    /\ held = <<>>
    /\ SessionUnused({1})

\* The agent in a process whose credentials change once it is constructed.
NextReconfig ==
    \/ Next
    \/ constructed /\ Setenv(ReconfigEnvironments)

SpecReconfig == InitReconfig /\ [][NextReconfig]_vars

\* The agent started and stopped by one task, with every start() succeeding
\* (the client's __aenter__ returns) and its client queried in between.
NextStartStop ==
    \/ Construct(1)
    \/ Start(1)
    \/ EnterReturns(1)
    \/ Stop(1)
    \/ ReleaseReturns(1)
    \/ ReleaseRaises(1)
    \/ Query(1)
    \/ SendReturns(1)
    \/ StreamEnds(1)

SpecStartStop == InitReconfig /\ [][NextStartStop]_vars

\* Two tasks share one agent, as under asyncio.gather(agent.query(a),
\* agent.query(b)); every provider is configured and nothing is missing.
InitConcurrent ==
    /\ env \in {e \in SessionEnvironments :
                   /\ e["ANTHROPIC_API_KEY"] = Str("sk-ant-key")
                   /\ e["DD_API_KEY"] = Str("abc123")
                   /\ e["GITHUB_PERSONAL_ACCESS_TOKEN"] = Str("ghp_token")}
    /\ fs \in {f \in Filesystems : f.which # None /\ f.exists # {}}
    /\ ret = NoCall
    /\ held = <<>>
    /\ SessionUnused({1, 2})

\* Task 1 constructs, starts and stops the agent; both tasks query it.
NextConcurrent ==
    \/ Construct(1)
    \/ Start(1)
    \/ EnterReturns(1)
    \/ EnterRaises(1)
    \/ Stop(1)
    \/ ReleaseReturns(1)
    \/ ReleaseRaises(1)
    \/ \E t \in tasks : Query(t)
    \/ \E t \in tasks : SendReturns(t)
    \/ \E t \in tasks : SendRaises(t)
    \/ \E t \in tasks : MessageArrives(t)
    \/ \E t \in tasks : StreamEnds(t)
    \/ \E t \in tasks : ReceiveRaises(t)

SpecConcurrent == InitConcurrent /\ [][NextConcurrent]_vars

----------------------------------------------------------------------------
(* Vocabulary of the claims about the registry *)

Providers == {"datadog", "github"}

RequiredCredentials(p) ==
    IF p = "datadog" THEN {"DD_API_KEY", "DD_APP_KEY"}
    ELSE {"GITHUB_PERSONAL_ACCESS_TOKEN"}

Placeholder(name) ==
    CASE name = "DD_API_KEY" -> "your_datadog_api_key_here"
      [] name = "DD_APP_KEY" -> "your_datadog_application_key_here"
      [] name = "GITHUB_PERSONAL_ACCESS_TOKEN" -> "your_github_token_here"

Placeholders == {Placeholder(n) : n \in UNION {RequiredCredentials(p) : p \in Providers}}

\* The variable is unset, empty, or still holds its template placeholder.
CredentialMissing(name) ==
    env[name] = None \/ env[name] = Str("") \/ env[name] = Str(Placeholder(name))

CredentialsMissing(p) == \E n \in RequiredCredentials(p) : CredentialMissing(n)

BuilderName(p) ==
    IF p = "datadog" THEN "get_datadog_mcp_config" ELSE "get_github_mcp_config"

Build(p) == IF p = "datadog" THEN get_datadog_mcp_config ELSE get_github_mcp_config

Label(p) == IF p = "datadog" THEN "Datadog" ELSE "GitHub"

\* The keys a provider's server needs in its spawned environment.
RequiredEnvKeys(p) ==
    IF p = "datadog" THEN {"DD_API_KEY", "DD_APP_KEY", "DD_SITE"}
    ELSE {"GITHUB_PERSONAL_ACCESS_TOKEN"}

Mentions(msg, word) == \E i \in DOMAIN msg : msg[i] = word

\* The printed lines that are the warning for provider p.
WarningsFor(p) ==
    {i \in DOMAIN ret.printed :
        /\ Len(ret.printed[i]) >= 3
        /\ ret.printed[i][1] = "Warning: Could not configure "
        /\ ret.printed[i][2] = Label(p)}

----------------------------------------------------------------------------
(* Claims about the registry, checked under SpecConfig *)

\* C1: for each provider, when one of its required credentials is unset,
\* empty or the placeholder, building its descriptor raises the
\* configuration error (ValueError), and the registry get_all_mcp_servers
\* returns does not hold the provider's key.
C1_MissingCredentialRejected ==
    \A p \in Providers :
        CredentialsMissing(p) =>
            /\ ret.op = BuilderName(p) => ret.exc = "ValueError"
            /\ ret.op = "get_all_mcp_servers" => p \notin DOMAIN ret.value

C1_Witness ==
    /\ ret.op = "get_all_mcp_servers"
    /\ env["DD_API_KEY"] = Str("abc123")
    /\ env["DD_APP_KEY"] = Str("your_datadog_application_key_here")
    /\ DOMAIN ret.value = {"github"}

\* C2: get_all_mcp_servers never raises: every call returns a mapping, and
\* the mapping is empty when neither provider can be built.
C2_AssembleNeverRaises ==
    ret.op = "get_all_mcp_servers" =>
        /\ ret.exc = "none"
        /\ DOMAIN ret.value \subseteq Providers
        /\ (\A p \in Providers : Build(p).exc # "none") => ret.value = EmptyDict

C2_Witness ==
    /\ ret.op = "get_all_mcp_servers"
    /\ \A p \in Providers : Build(p).exc = "ValueError"
    /\ github_mcp_path \notin fs.exists
    /\ ret.exc = "none"
    /\ ret.value = EmptyDict

\* The credentials of p are actual values and its executable, if it needs one
\* at a fixed path, is there.
CorrectlyConfigured(p) ==
    /\ ~CredentialsMissing(p)
    /\ p = "github" => github_mcp_path \in fs.exists

\* C3: the registry holds a provider's key exactly when that provider's
\* descriptor builds under the same configuration, the value under the key is
\* the descriptor the builder returns, no other key appears, and with both
\* providers correctly configured the keys are exactly datadog and github.
C3_RegistryIsTheBuiltDescriptors ==
    ret.op = "get_all_mcp_servers" =>
        /\ DOMAIN ret.value \subseteq Providers
        /\ \A p \in Providers :
              /\ p \in DOMAIN ret.value <=> Build(p).exc = "none"
              /\ p \in DOMAIN ret.value => ret.value[p] = Build(p).value[p]
        /\ (\A p \in Providers : CorrectlyConfigured(p)) =>
              DOMAIN ret.value = {"datadog", "github"}

C3_Witness ==
    /\ ret.op = "get_all_mcp_servers"
    /\ \A p \in Providers : CorrectlyConfigured(p)
    /\ DOMAIN ret.value = {"datadog", "github"}
    /\ ret.value["github"].command = github_mcp_path

\* C4: in one get_all_mcp_servers call each provider whose build fails gets
\* exactly one warning line, naming the provider and carrying the builder's
\* message; a provider that builds gets none and nothing else is printed; a
\* provider is included whatever happens to the other one; and with only the
\* github token configured the registry is exactly {github} with a warning
\* for datadog.
C4_FailuresIsolatedAndWarned ==
    ret.op = "get_all_mcp_servers" =>
        /\ \A p \in Providers :
              IF Build(p).exc = "none"
              THEN WarningsFor(p) = {} /\ p \in DOMAIN ret.value
              ELSE /\ Cardinality(WarningsFor(p)) = 1
                   /\ \A i \in WarningsFor(p) :
                         ret.printed[i] = Warning(Label(p), Build(p).msg)
                   /\ p \notin DOMAIN ret.value
        /\ DOMAIN ret.printed = UNION {WarningsFor(p) : p \in Providers}
        /\ (CorrectlyConfigured("github") /\ CredentialsMissing("datadog")) =>
              /\ DOMAIN ret.value = {"github"}
              /\ WarningsFor("datadog") # {}

C4_Witness ==
    /\ ret.op = "get_all_mcp_servers"
    /\ env["DD_API_KEY"] = None
    /\ env["DD_APP_KEY"] = None
    /\ CorrectlyConfigured("github")
    /\ DOMAIN ret.value = {"github"}
    /\ Len(ret.printed) = 1
    /\ Mentions(ret.printed[1], "DD_API_KEY")

\* An actual value: not empty and not one of the template placeholders.
ActualValue(v) == v # "" /\ v \notin Placeholders

\* C5: a descriptor that was built has a non-empty command and an env whose
\* keys are exactly the provider's required keys, every value of which is an
\* actual value (DD_SITE included, whatever the site variable holds).
C5_BuiltDescriptorHasActualValues ==
    \A p \in Providers :
        (ret.op = BuilderName(p) /\ ret.exc = "none") =>
            /\ ret.value[p].command # ""
            /\ DOMAIN ret.value[p].env = RequiredEnvKeys(p)
            /\ \A k \in DOMAIN ret.value[p].env : ActualValue(ret.value[p].env[k])

\* C6 as claimed: every descriptor of a returned registry has the four
\* fields type, command, args and env, with type "stdio".
C6_UniformDescriptorShape ==
    ret.op = "get_all_mcp_servers" =>
        \A p \in DOMAIN ret.value :
            /\ DOMAIN ret.value[p] = {"type", "command", "args", "env"}
            /\ ret.value[p].type = "stdio"

\* C6 as amended: every descriptor of a returned registry has type "stdio",
\* a command string and an env mapping from strings to strings; the github
\* descriptor also has args, a sequence of strings, and the datadog
\* descriptor has no args field.
C6_DescriptorShape ==
    ret.op = "get_all_mcp_servers" =>
        \A p \in DOMAIN ret.value :
            LET d == ret.value[p] IN
            /\ {"type", "command", "env"} \subseteq DOMAIN d
            /\ d.type = "stdio"
            /\ d.command \in STRING
            /\ DOMAIN d.env \subseteq STRING
            /\ \A k \in DOMAIN d.env : d.env[k] \in STRING
            /\ p = "github" =>
                  /\ DOMAIN d = {"type", "command", "args", "env"}
                  /\ d.args \in Seq(STRING)
            /\ p = "datadog" => DOMAIN d = {"type", "command", "env"}

C6_Witness ==
    /\ ret.op = "get_all_mcp_servers"
    /\ DOMAIN ret.value = {"datadog", "github"}
    /\ "args" \notin DOMAIN ret.value["datadog"]
    /\ ret.value["github"].args = <<"stdio">>

\* C7: with valid datadog credentials the build succeeds whatever DD_SITE
\* holds; env["DD_SITE"] is "datadoghq.com" when the variable is unset and
\* the variable's value, unchanged, when it is set.
C7_SiteDefaultsAndPassesThrough ==
    (ret.op = "get_datadog_mcp_config" /\ ~CredentialsMissing("datadog")) =>
        /\ ret.exc = "none"
        /\ env["DD_SITE"] = None => ret.value["datadog"].env["DD_SITE"] = "datadoghq.com"
        /\ env["DD_SITE"] # None =>
              ret.value["datadog"].env["DD_SITE"] = env["DD_SITE"][1]

C7_Witness ==
    /\ ret.op = "get_datadog_mcp_config"
    /\ env["DD_API_KEY"] = Str("abc123")
    /\ env["DD_SITE"] = None
    /\ ret.exc = "none"
    /\ ret.value["datadog"].env["DD_SITE"] = "datadoghq.com"

\* C8: with DD_API_KEY unset or the placeholder, building the datadog
\* descriptor raises ValueError with a message mentioning DD_API_KEY,
\* whatever DD_APP_KEY and DD_SITE hold; the application key's own failure,
\* met only once the API key passed, mentions DD_APP_KEY.
C8_ApiKeyCheckedFirst ==
    ret.op = "get_datadog_mcp_config" =>
        /\ (env["DD_API_KEY"] \in {None, Str("your_datadog_api_key_here")}) =>
              /\ ret.exc = "ValueError"
              /\ Mentions(ret.msg, "DD_API_KEY")
              /\ ~Mentions(ret.msg, "DD_APP_KEY")
        /\ (~CredentialMissing("DD_API_KEY") /\ CredentialMissing("DD_APP_KEY")) =>
              /\ ret.exc = "ValueError"
              /\ Mentions(ret.msg, "DD_APP_KEY")

C8_Witness ==
    /\ ret.op = "get_datadog_mcp_config"
    /\ env["DD_API_KEY"] = Str("your_datadog_api_key_here")
    /\ env["DD_APP_KEY"] = None
    /\ ret.exc = "ValueError"
    /\ Mentions(ret.msg, "DD_API_KEY")


----------------------------------------------------------------------------
(* Claims about the session, checked under Spec *)

\* C9 as claimed: whatever the providers' credentials and executables,
\* constructing AutonomousAgent succeeds (given the agent runtime's own key).
C9_AlwaysConstructible ==
    \A t \in tasks :
        (last[t].op = "__init__" /\ Truthy(env["ANTHROPIC_API_KEY"])) =>
            last[t].exc = "none"

\* C9 as amended: with ANTHROPIC_API_KEY set and the datadog executable on
\* the search path, construction succeeds for every combination of provider
\* credentials and of the github executable, and the session holds exactly
\* the correctly configured providers; with the datadog executable not on
\* the search path construction raises RuntimeError and no agent exists.
C9_ConstructibleWhenDatadogServerFound ==
    \A t \in tasks :
        (last[t].op = "__init__" /\ Truthy(env["ANTHROPIC_API_KEY"])) =>
            IF fs.which # None
            THEN /\ last[t].exc = "none"
                 /\ constructed
                 /\ DOMAIN options.mcp_servers =
                        {p \in Providers : CorrectlyConfigured(p)}
            ELSE /\ last[t].exc = "RuntimeError"
                 /\ ~constructed

\* Source-control-only mode: constructed with github alone.
C9_Witness ==
    /\ last[1].op = "__init__"
    /\ last[1].exc = "none"
    /\ CredentialsMissing("datadog")
    /\ DOMAIN options.mcp_servers = {"github"}

\* C10: when an `async with` on the agent has just been left, whether its body
\* finished or raised, the release (__aexit__) of the client it entered has
\* been invoked exactly once, the session is not running (self.client is
\* None), and an exception of the body is the one that propagates.
C10_ScopedUseReleasesOnce ==
    \A t \in tasks :
        (last[t].op = "__aexit__" /\ pc[t] = "idle") =>
            /\ clients[scope[t].client].releases = 1
            /\ client = 0
            /\ scope[t].bodyExc # "none" => last[t].exc = scope[t].bodyExc

\* The session is not started: start() was never called, or the client
\* created last has been released by a stop() that returned.
NotStarted == clients = <<>> \/ clients[Len(clients)].state = "released"

\* Task t calls query() in this step: it was idle and either a request goes
\* out or the call has already ended.
CallsQuery(t) ==
    /\ pc[t] = "idle"
    /\ \/ pc'[t] = "query_sending"
       \/ last'[t].op = "query" /\ last'[t] # last[t]

\* C11: a query() on a session that is not started (never started, or
\* stopped) raises RuntimeError at once, with no request put on any client
\* and the session left as it was; a request goes out only on a session
\* that is started.
C11_QueryNeedsStartedSession ==
    [][\A t \in tasks :
          (CallsQuery(t) /\ NotStarted) =>
              /\ pc'[t] = "idle"
              /\ last'[t] = [op |-> "query", exc |-> "RuntimeError"]
              /\ UNCHANGED <<constructed, options, client, clients>>]_vars

\* A query after start() and a stop() that returned.
C11_Witness ==
    /\ pc[1] = "idle"
    /\ last[1] = [op |-> "query", exc |-> "RuntimeError"]
    /\ clients # <<>>
    /\ NotStarted
    /\ \A c \in DOMAIN clients : clients[c].inflight = 0

\* The tasks whose query() has a request outstanding: awaiting the client's
\* query or consuming its response stream.
Outstanding == {t \in tasks : pc[t] \in {"query_sending", "query_receiving"}}

\* C12: at most one request of a session is outstanding at a time, whatever
\* the interleaving of the tasks' query() calls.
C12_OneOutstandingRequest == Cardinality(Outstanding) <= 1

\* The runtime raised into the query() of task t that has just ended.
QueryFaulted(t) ==
    /\ pc[t] = "idle"
    /\ last[t].op = "query"
    /\ fault[t] # "none"

\* C13: an error the runtime raises during a live query, while the prompt
\* is sent or while the response is received, leaves query() as that same
\* error: nothing is returned, no further request goes out, and self.client
\* is still the client the request was made on, which is otherwise as it was
\* (entered, when the session was started).
C13_RuntimeFailurePropagates ==
    [][\A t \in tasks :
          (pc[t] \in {"query_sending", "query_receiving"} /\ QueryFaulted(t)') =>
              /\ last'[t].exc = fault'[t]
              /\ client' = client
              /\ client' = loc[t]
              /\ client' # 0
              /\ clients' = [clients EXCEPT ![loc[t]].inflight = 0]]_vars

\* The response stream fails after a message with text has been received.
C13_Witness ==
    /\ QueryFaulted(1)
    /\ last[1].exc \in RuntimeErrors
    /\ response_text[1] # <<>>
    /\ client # 0
    /\ clients[client].state = "entered"

\* The calls of get_all_mcp_servers the agent has made.
Assemblies == {i \in DOMAIN calls : calls[i].fn = "get_all_mcp_servers"}

\* C14: a constructed agent has called get_all_mcp_servers exactly once, its
\* options hold the mapping that call returned, and every client it creates
\* is given those options, whatever was done with the agent since and however
\* the configuration has changed.
C14_RegistryRequestedOnce ==
    constructed =>
        /\ Cardinality(Assemblies) = 1
        /\ \A i \in Assemblies : options.mcp_servers = calls[i].value
        /\ \A c \in DOMAIN clients : clients[c].options = options

\* A client started and released after the configuration changed: the
\* agent's registry is no longer what get_all_mcp_servers would assemble.
C14_Witness ==
    /\ constructed
    /\ options.mcp_servers # get_all_mcp_servers.value
    /\ \E c \in DOMAIN clients : clients[c].state = "released"
    /\ \E t \in tasks : last[t].op = "query"

\* Provider p is configured in the present surroundings: its credentials
\* are set and its executable, when the builder probes for one, is there.
Configured(p) ==
    /\ \A n \in RequiredCredentials(p) :
          env[n] # None /\ env[n] # Str("") /\ env[n] # Str(Placeholder(n))
    /\ p = "github" => github_mcp_path \in fs.exists

\* This step is a call of a config function whose result the caller sees
\* (a call that returns what the last one did, unheld, changes nothing).
ConfigCall == ret' # ret \/ held' # held

\* C15: the config functions are stateless. No call changes the configuration
\* or the filesystem; each call of get_all_mcp_servers returns the registry of
\* the configuration it is made under, whatever was assembled before (the
\* same as an earlier call under that configuration, the changed one after a
\* change); and the registries returned earlier stay as they were.
C15_AssemblyIsStateless ==
    [][ConfigCall =>
          /\ UNCHANGED <<env, fs>>
          /\ \A i \in DOMAIN held : held'[i] = held[i]
          /\ ret'.op = "get_all_mcp_servers" =>
                /\ DOMAIN ret'.value = {p \in Providers : Configured(p)}
                /\ \A p \in DOMAIN ret'.value :
                      \A n \in RequiredCredentials(p) :
                          ret'.value[p].env[n] = env[n][1]
                /\ \A i \in DOMAIN held :
                      (held[i].env = env /\ held[i].fs = fs) =>
                          ret'.value = held[i].value]_vars

\* Two registries are held that differ, the later one assembled after the
\* configuration changed, and a third call under the first configuration
\* has returned the first registry again.
C15_Witness ==
    /\ Len(held) = 2
    /\ held[1].value # held[2].value
    /\ held[1].env # held[2].env
    /\ ret.op = "get_all_mcp_servers"
    /\ held[1].env = env /\ held[1].fs = fs
    /\ ret.value = held[1].value
    /\ ret.value # EmptyDict

\* The github server executable is not at its per-user path.
GithubServerAbsent == github_mcp_path \notin fs.exists

\* C16: with the github executable absent, get_github_mcp_config raises
\* ValueError whatever the token and get_all_mcp_servers leaves github out;
\* the error is the one about the token when the token is missing too, and
\* the one about the executable, naming the path, only when the token is
\* valid; a descriptor that is built has that path as its command.
C16_GithubExecutableRequired ==
    /\ ret.op = "get_github_mcp_config" =>
          /\ GithubServerAbsent => ret.exc = "ValueError"
          /\ CredentialMissing("GITHUB_PERSONAL_ACCESS_TOKEN") =>
                /\ ret.exc = "ValueError"
                /\ Mentions(ret.msg, "GITHUB_PERSONAL_ACCESS_TOKEN")
                /\ ~Mentions(ret.msg, "GitHub MCP Server not found at ")
          /\ (GithubServerAbsent /\ ~CredentialMissing("GITHUB_PERSONAL_ACCESS_TOKEN")) =>
                /\ Mentions(ret.msg, "GitHub MCP Server not found at ")
                /\ Mentions(ret.msg, github_mcp_path)
                /\ ~Mentions(ret.msg, "GITHUB_PERSONAL_ACCESS_TOKEN")
          /\ ret.exc = "none" =>
                /\ DOMAIN ret.value = {"github"}
                /\ ret.value["github"].command = github_mcp_path
                /\ ~GithubServerAbsent
    /\ ret.op = "get_all_mcp_servers" =>
          /\ GithubServerAbsent => "github" \notin DOMAIN ret.value
          /\ "github" \in DOMAIN ret.value =>
                ret.value["github"].command = github_mcp_path

\* A valid token, the executable absent: the build has failed.
C16_Witness ==
    /\ ret.op = "get_github_mcp_config"
    /\ env["GITHUB_PERSONAL_ACCESS_TOKEN"] = Str("ghp_token")
    /\ GithubServerAbsent
    /\ ret.exc = "ValueError"

\* The datadog server executable is on the search path.
DatadogServerOnPath == fs.which # None

\* C17: validate_mcp_server never raises; it returns True exactly when the
\* datadog executable is on the search path, having printed the path it
\* resolved to, and False otherwise, whatever the credential variables hold.
C17_ValidateReportsSearchPath ==
    ret.op = "validate_mcp_server" =>
        /\ ret.exc = "none"
        /\ ret.flag = DatadogServerOnPath
        /\ ret.flag =>
              \E i \in DOMAIN ret.printed : Mentions(ret.printed[i], fs.which[1])
        /\ ~ret.flag =>
              \A i \in DOMAIN ret.printed :
                  ~Mentions(ret.printed[i], "Found datadog-mcp-server at: ")

\* True with no datadog credential set.
C17_Witness ==
    /\ ret.op = "validate_mcp_server"
    /\ ret.flag
    /\ env["DD_API_KEY"] = None
    /\ env["DD_APP_KEY"] = None

\* ANTHROPIC_API_KEY is unset or empty.
ApiKeyMissing == env["ANTHROPIC_API_KEY"] \in {None, Str("")}

\* C18: AutonomousAgent() raises ValueError when ANTHROPIC_API_KEY is unset
\* or empty, before it looks for anything else; otherwise RuntimeError when
\* the datadog executable is not on the search path; in both cases it has not
\* called get_all_mcp_servers and there is no agent and no client. Otherwise
\* it returns, whatever the providers' credentials, and the agent it leaves
\* is not started.
C18_ConstructionChecksInOrder ==
    \A t \in tasks :
        last[t].op = "__init__" =>
            IF ApiKeyMissing
            THEN /\ last[t].exc = "ValueError"
                 /\ calls = <<>>
                 /\ ~constructed /\ client = 0 /\ clients = <<>>
            ELSE IF ~DatadogServerOnPath
            THEN /\ last[t].exc = "RuntimeError"
                 /\ Assemblies = {}
                 /\ ~constructed /\ client = 0 /\ clients = <<>>
            ELSE /\ last[t].exc = "none"
                 /\ constructed
                 /\ pc[t] = "idle" => (client = 0 /\ clients = <<>>)

\* Neither the API key nor the datadog executable: the key is reported.
C18_Witness ==
    /\ last[1] = [op |-> "__init__", exc |-> "ValueError"]
    /\ ApiKeyMissing
    /\ ~DatadogServerOnPath

\* The texts of the blocks of message m that have a text attribute, in block
\* order; none for a message with no content attribute.
TextsOf(m) ==
    IF "content" \in DOMAIN m
    THEN LET blocks == SelectSeq(m.content, LAMBDA b : "text" \in DOMAIN b)
         IN  [i \in 1..Len(blocks) |-> blocks[i].text]
    ELSE <<>>

RECURSIVE TextOfStream(_)
\* The texts of all messages of stream s, in arrival order.
TextOfStream(s) ==
    IF s = <<>> THEN <<>>
    ELSE TextOfStream(SubSeq(s, 1, Len(s) - 1)) \o TextsOf(s[Len(s)])

\* C19: the text a query() returns is the texts of the text blocks of the
\* messages that arrived, in arrival order and in block order, and nothing
\* else (empty when there was none), with verbose set or not.
C19_ResponseIsConcatenatedText ==
    \A t \in tasks :
        (pc[t] = "idle" /\ last[t] = [op |-> "query", exc |-> "none"]) =>
            response_text[t] = TextOfStream(stream[t])

\* A verbose query returned the text of two messages, one of them with a
\* block that has no text.
C19_Witness ==
    /\ pc[1] = "idle"
    /\ last[1] = [op |-> "query", exc |-> "none"]
    /\ verbose[1]
    /\ printed[1] # <<>>
    /\ response_text[1] = <<"Hello ", "wor", "ld">>

\* C20: a stop() that has returned leaves the session not started, and the
\* release of a client that start() had entered has been invoked once, not
\* more, however many stop() calls followed (stop() on a session never
\* started or already stopped invoking none).
C20_StopIsIdempotent ==
    /\ \A t \in tasks :
          (pc[t] = "idle" /\ last[t] = [op |-> "stop", exc |-> "none"]) =>
              client = 0
    /\ \A c \in DOMAIN clients : clients[c].releases <= 1

\* The clients whose __aenter__ has returned and on which no __aexit__ has
\* ended: their connections are open.
EnteredUnreleased == {c \in DOMAIN clients : clients[c].state = "entered"}

\* C21: whatever start(), stop() and query() calls were made, at most one
\* client is entered and not released, and it is the one self.client holds,
\* so that a later stop() releases it: a second start() leaves no open
\* client behind that nothing refers to.
C21_NoClientLeaked ==
    /\ Cardinality(EnteredUnreleased) <= 1
    /\ \A c \in EnteredUnreleased : client = c

\* The clients whose __aenter__ has not returned: just created, or failed.
NeverEntered == {c \in DOMAIN clients : clients[c].state \in {"created", "enter_failed"}}

\* C22: between the calls of the agent's methods self.client is set only to
\* a client that has been entered: after a start() or a scoped entry whose
\* __aenter__ raised the session is not started, a query() that follows
\* raises RuntimeError and puts no request on the client that was never
\* entered; and after a stop() whose release raised no later stop() invokes
\* the release of that client again.
C22_HandleOnlyWhileEntered ==
    /\ (\A t \in tasks : pc[t] = "idle") => client \notin NeverEntered
    /\ \A c \in NeverEntered : clients[c].inflight = 0
    /\ \A t \in tasks :
          (/\ pc[t] = "idle"
           /\ last[t].op = "query"
           /\ clients # <<>>
           /\ clients[Len(clients)].state = "enter_failed") =>
              last[t].exc = "RuntimeError"
    /\ \A c \in DOMAIN clients :
          clients[c].state = "release_failed" => clients[c].releases = 1

====
